---------------------------- MODULE Spec2Model ----------------------------
(***************************************************************************)
(* Model of convert_to_c_header.py: main() reads the frames of a video,    *)
(* thresholds every pixel to one bit, joins the bits of all frames into    *)
(* one string, run-length encodes it with rle_encode() and writes the      *)
(* result into a C header.                                                 *)
(*                                                                         *)
(* A Python str is modelled as a sequence of one-character strings, so     *)
(* that formatting (f"{count}:{prev_char}", " ".join, "".join, str) and    *)
(* the parsing a consumer of the header does are computed character by     *)
(* character.                                                              *)
(*                                                                         *)
(* The video file is the environment: whether it opens (canOpen), the      *)
(* frames it holds (video) and the frame, if any, that cannot be decoded   *)
(* (corruptAt).  cap.read() returns ret = False both at the end of the     *)
(* stream and for a frame that cannot be decoded.  Frames have one or      *)
(* three channels; a failure to create video_data.h is not modelled.       *)
(*                                                                         *)
(* Spec    runs main() on a video drawn from a bounded set.                *)
(* SpecEnc calls rle_encode() directly on a string drawn from a bounded    *)
(*         set, which may hold characters other than '0' and '1'.          *)
(***************************************************************************)
EXTENDS Integers, Sequences, FiniteSets, TLC

VARIABLES
    pc,          \* position of main(): "open", "read", "release", "encode",
                 \* "done", "exit", "crash"; "lib" when main() is not run
    canOpen,     \* environment: cap.isOpened() for the input video
    video,       \* environment: the frames the file holds, in decode order
    corruptAt,   \* environment: index of the frame that fails to decode, 0 if none
    frameIdx,    \* number of frames cap.read() has returned so far
    bit_chars,   \* main's list of per-pixel strings
    stdout,      \* lines printed
    exitcode,    \* process exit status, -1 while running
    outfile,     \* video_data.h: [written, contents]
    epc,         \* position of rle_encode(): "idle", "call", "loop", "return", "raise"
    data,        \* rle_encode's argument
    encoded,     \* rle_encode's list of tokens
    prev_char,   \* rle_encode's current run value
    count,       \* rle_encode's current run length
    idx,         \* 1-based position in data of the next char of `for char in data[1:]`
    ret          \* rle_encode's return value

mainVars == <<pc, canOpen, video, corruptAt, frameIdx, bit_chars, stdout, exitcode, outfile>>
encVars == <<epc, data, encoded, prev_char, count, idx, ret>>
vars == <<pc, canOpen, video, corruptAt, frameIdx, bit_chars, stdout, exitcode, outfile,
          epc, data, encoded, prev_char, count, idx, ret>>

----------------------------------------------------------------------------
(* Bounds of the model *)

\* longest string of '0'/'1' handed to rle_encode directly
MaxLen == 10
\* longest string over the wider alphabet handed to rle_encode directly
MaxBadLen == 3
\* most frames in a video
MaxFrames == 3
\* most pixels in a frame
MaxPixels == 2

----------------------------------------------------------------------------
(* Python strings and their formatting *)

Bits == {"0", "1"}

DigitChars == <<"0", "1", "2", "3", "4", "5", "6", "7", "8", "9">>

\* a rendering that keeps only the last decimal digit
StrLastDigit(n) == <<DigitChars[(n % 10) + 1]>>

RECURSIVE Str(_)
\* str(n) / f"{n}" of a non-negative int: its decimal digits
Str(n) == IF n < 10 THEN <<DigitChars[n + 1]>>
          ELSE Str(n \div 10) \o <<DigitChars[(n % 10) + 1]>>

\* f"{count}:{prev_char}"
Token(c, ch) == Str(c) \o <<":", ch>>

RECURSIVE JoinWith(_, _)
\* sep.join(parts) for a list of strings
JoinWith(sep, parts) ==
    IF Len(parts) = 0 THEN <<>>
    ELSE IF Len(parts) = 1 THEN parts[1]
    ELSE parts[1] \o sep \o JoinWith(sep, Tail(parts))

\* " ".join(encoded)
SpaceJoin(parts) == JoinWith(<<" ">>, parts)

\* "".join(bit_chars)
EmptyJoin(parts) == JoinWith(<<>>, parts)

----------------------------------------------------------------------------
(* rle_encode(data) *)

\* a guard that never takes the early return
NotDataNever(d) == FALSE

\* `not data`
NotData(d) == Len(d) = 0

\* a run counter that starts at 0
FirstCountZero == 1 - 1

\* count = 1 (first char of a run)
FirstCount == 1

\* a comparison that is always true: every char extends the run
SameRunAlways(char, prev) == TRUE

\* a comparison that is always false: every char starts a run
SameRunNever(char, prev) == FALSE

\* char == prev_char
SameRun(char, prev) == char = prev

\* lines 9-14: the early return on empty input, else the first run starts
RleEnter ==
    /\ epc = "call"
    /\ IF NotData(data)
       THEN /\ ret' = <<>>
            /\ epc' = "return"
            /\ UNCHANGED <<encoded, prev_char, count, idx>>
       ELSE IF Len(data) = 0
       THEN \* data[0] of an empty str: IndexError
            /\ epc' = "raise"
            /\ UNCHANGED <<encoded, prev_char, count, idx, ret>>
       ELSE /\ encoded' = <<>>
            /\ prev_char' = data[1]
            /\ count' = FirstCount
            /\ idx' = 2
            /\ epc' = "loop"
            /\ UNCHANGED ret
    /\ UNCHANGED <<data, mainVars>>

\* lines 15-21: one iteration of `for char in data[1:]`
RleLoop ==
    /\ epc = "loop"
    /\ idx <= Len(data)
    /\ LET char == data[idx] IN
         IF SameRun(char, prev_char)
         THEN /\ count' = count + 1
              /\ UNCHANGED <<encoded, prev_char>>
         ELSE /\ encoded' = Append(encoded, Token(count, prev_char))
              /\ prev_char' = char
              /\ count' = FirstCount
    /\ idx' = idx + 1
    /\ UNCHANGED <<epc, data, ret, mainVars>>

\* lines 22-24: the loop is over: append the last run and join
RleFinish ==
    /\ epc = "loop"
    /\ idx > Len(data)
    /\ encoded' = Append(encoded, Token(count, prev_char))
    /\ ret' = SpaceJoin(encoded')
    /\ epc' = "return"
    /\ UNCHANGED <<data, prev_char, count, idx, mainVars>>

RleNext == RleEnter \/ RleLoop \/ RleFinish

----------------------------------------------------------------------------
(* rle_encode called directly *)

RECURSIVE StringsUpTo(_, _)
\* all strings over alphabet of length at most n
StringsUpTo(alphabet, n) ==
    IF n = 0 THEN {<<>>}
    ELSE LET shorter == StringsUpTo(alphabet, n - 1) IN
         shorter \cup {Append(s, c) : s \in {t \in shorter : Len(t) = n - 1}, c \in alphabet}

\* characters a caller may pass besides '0' and '1'
Alphabet == {"0", "1", "2"}

EncInputs == StringsUpTo(Bits, MaxLen) \cup StringsUpTo(Alphabet, MaxBadLen)

NoFile == [written |-> FALSE, contents |-> <<>>]

InitEnc ==
    /\ pc = "lib"
    /\ canOpen = FALSE
    /\ video = <<>>
    /\ corruptAt = 0
    /\ frameIdx = 0
    /\ bit_chars = <<>>
    /\ stdout = <<>>
    /\ exitcode = -1
    /\ outfile = NoFile
    /\ epc = "call"
    /\ data \in EncInputs
    /\ encoded = <<>>
    /\ prev_char = ""
    /\ count = 0
    /\ idx = 0
    /\ ret = <<>>

SpecEnc == InitEnc /\ [][RleNext]_vars

----------------------------------------------------------------------------
(* main(): frames and their binarization *)

\* cv2.threshold(frame, 128, 1, ...): thresh
Thresh == 128
\* cv2.threshold(frame, 128, 1, ...): maxval
MaxVal == 1

\* a frame is a numpy array: its shape and its pixels, row by row
IsColor(frame) == Len(frame.shape) = 3 /\ frame.shape[3] = 3

\* cv2.cvtColor(frame, cv2.COLOR_BGR2GRAY) on one 8-bit pixel <<b, g, r>>:
\* the library's fixed-point luma 0.114 B + 0.587 G + 0.299 R
CvtColorPixel(p) == (p[1] * 1868 + p[2] * 9617 + p[3] * 4899 + 8192) \div 16384

CvtColor(pix) == [r \in DOMAIN pix |-> [c \in DOMAIN pix[r] |-> CvtColorPixel(pix[r][c])]]

\* a threshold that also lets the boundary value through
ThresholdPixelInclusive(i) == IF i >= Thresh THEN MaxVal ELSE 0

\* cv2.THRESH_BINARY on one pixel: maxval if src > thresh else 0
ThresholdPixel(i) == IF i > Thresh THEN MaxVal ELSE 0

ThresholdFrame(pix) == [r \in DOMAIN pix |-> [c \in DOMAIN pix[r] |-> ThresholdPixel(pix[r][c])]]

RECURSIVE Flatten(_)
\* binary.flatten(): the rows one after the other
Flatten(pix) == IF Len(pix) = 0 THEN <<>> ELSE pix[1] \o Flatten(Tail(pix))

\* .astype(np.uint8)
AsUint8(x) == x % 256

\* an extend that keeps only the latest frame's items
ExtendReplace(list, items) == items

\* list.extend(items)
Extend(list, items) == list \o items

\* lines 46-58 for one frame: the strings appended to bit_chars
FrameBitChars(frame) ==
    LET gray == IF IsColor(frame) THEN CvtColor(frame.pix) ELSE frame.pix
        binary == ThresholdFrame(gray)
        flat == Flatten(binary)
    IN [i \in DOMAIN flat |-> Str(AsUint8(flat[i]))]

HeaderPrefix == "#ifndef VIDEO_DATA_H\n#define VIDEO_DATA_H\n\nconst char* video_data = \""
HeaderSuffix == "\";\n\n#endif // VIDEO_DATA_H\n"

\* header_contents, the encoded string between the two fixed parts of the template
HeaderContents(enc) == <<HeaderPrefix>> \o enc \o <<HeaderSuffix>>

OpenErrorMessage == "Error: Could not open video file."
SuccessMessage == "Header file 'video_data.h' generated successfully."

----------------------------------------------------------------------------
(* main(): the steps *)

\* a check that takes every capture for opened
IsOpenedAlways == TRUE

\* cap.isOpened()
IsOpened == canOpen

\* cap.read(): ret is False at the end of the stream and when the next frame
\* cannot be decoded alike
ReadRet == frameIdx < Len(video) /\ frameIdx + 1 # corruptAt

\* lines 32-35
MainOpen ==
    /\ pc = "open"
    /\ IF ~IsOpened
       THEN /\ stdout' = Append(stdout, OpenErrorMessage)
            /\ exitcode' = 1
            /\ pc' = "exit"
       ELSE /\ pc' = "read"
            /\ UNCHANGED <<stdout, exitcode>>
    /\ UNCHANGED <<canOpen, video, corruptAt, frameIdx, bit_chars, outfile, encVars>>

\* lines 41-58: one iteration of `while True`
MainRead ==
    /\ pc = "read"
    /\ IF ~ReadRet
       THEN /\ pc' = "release"
            /\ UNCHANGED <<frameIdx, bit_chars>>
       ELSE /\ bit_chars' = Extend(bit_chars, FrameBitChars(video[frameIdx + 1]))
            /\ frameIdx' = frameIdx + 1
            /\ pc' = "read"
    /\ UNCHANGED <<canOpen, video, corruptAt, stdout, exitcode, outfile, encVars>>

\* lines 60-66: release, join the bits, call rle_encode(bit_string)
MainEncode ==
    /\ pc = "release"
    /\ data' = EmptyJoin(bit_chars)
    /\ epc' = "call"
    /\ pc' = "encode"
    /\ UNCHANGED <<canOpen, video, corruptAt, frameIdx, bit_chars, stdout, exitcode, outfile,
                   encoded, prev_char, count, idx, ret>>

\* lines 66-79: rle_encode is back: write the header and report; an exception
\* out of rle_encode ends the process with a traceback
MainWrite ==
    /\ pc = "encode"
    /\ epc \in {"return", "raise"}
    /\ IF epc = "raise"
       THEN /\ pc' = "crash"
            /\ exitcode' = 1
            /\ UNCHANGED <<outfile, stdout>>
       ELSE /\ outfile' = [written |-> TRUE, contents |-> HeaderContents(ret)]
            /\ stdout' = Append(stdout, SuccessMessage)
            /\ exitcode' = 0
            /\ pc' = "done"
    /\ UNCHANGED <<canOpen, video, corruptAt, frameIdx, bit_chars, encVars>>

Next == MainOpen \/ MainRead \/ MainEncode \/ RleEnter \/ RleLoop \/ RleFinish \/ MainWrite

----------------------------------------------------------------------------
(* the videos main() is run on *)

\* single-channel intensities around the threshold
GrayLevels == {128, 129}
\* <<b, g, r>> pixels, one on each side of the threshold after conversion
ColorLevels == {<<128, 128, 128>>, <<0, 255, 255>>}

Shapes == {sh \in (0..MaxPixels) \X (0..MaxPixels) : sh[1] * sh[2] <= MaxPixels}

Grids(sh, levels) == [1..sh[1] -> [1..sh[2] -> levels]]

GrayFrames(sh, levels) == {[shape |-> sh, pix |-> g] : g \in Grids(sh, levels)}
ColorFrames(sh) == {[shape |-> <<sh[1], sh[2], 3>>, pix |-> g] : g \in Grids(sh, ColorLevels)}

\* a video has one frame size and one pixel format throughout
SmallVideos ==
    UNION {[1..n -> frames] :
             n \in 0..MaxFrames,
             frames \in {GrayFrames(sh, GrayLevels) : sh \in Shapes}
                        \cup {ColorFrames(sh) : sh \in Shapes}}

\* one single-channel frame of one pixel, for every 8-bit intensity
OnePixelVideos == {<<f>> : f \in GrayFrames(<<1, 1>>, 0..255)}

Videos == SmallVideos \cup OnePixelVideos

Init ==
    /\ pc = "open"
    /\ canOpen \in BOOLEAN
    /\ video \in (IF canOpen THEN Videos ELSE {<<>>})
    /\ corruptAt \in 0..Len(video)
    /\ frameIdx = 0
    /\ bit_chars = <<>>
    /\ stdout = <<>>
    /\ exitcode = -1
    /\ outfile = NoFile
    /\ epc = "idle"
    /\ data = <<>>
    /\ encoded = <<>>
    /\ prev_char = ""
    /\ count = 0
    /\ idx = 0
    /\ ret = <<>>

Spec == Init /\ [][Next]_vars

----------------------------------------------------------------------------
(* Reading an Encoded Output back: what a consumer of the header does *)

HasChar(s, c) == \E i \in DOMAIN s : s[i] = c

FirstIndex(s, c) == CHOOSE i \in DOMAIN s : s[i] = c /\ \A j \in 1..(i - 1) : s[j] # c

RECURSIVE SplitOn(_, _)
\* the pieces of s between occurrences of c
SplitOn(s, c) ==
    IF ~HasChar(s, c) THEN <<s>>
    ELSE LET i == FirstIndex(s, c) IN
         <<SubSeq(s, 1, i - 1)>> \o SplitOn(SubSeq(s, i + 1, Len(s)), c)

\* the tokens of an Encoded Output; the empty output holds none
TokensOf(out) == IF out = <<>> THEN <<>> ELSE SplitOn(out, " ")

IsDigit(c) == \E d \in DOMAIN DigitChars : DigitChars[d] = c

DigitVal(c) == (CHOOSE d \in DOMAIN DigitChars : DigitChars[d] = c) - 1

\* a token is digits, a colon and one value character
WellFormedToken(tok) ==
    /\ HasChar(tok, ":")
    /\ LET i == FirstIndex(tok, ":") IN
         /\ i > 1
         /\ \A j \in 1..(i - 1) : IsDigit(tok[j])
         /\ Len(tok) = i + 1

RECURSIVE ParseNat(_)
ParseNat(ds) ==
    IF Len(ds) = 0 THEN 0
    ELSE ParseNat(SubSeq(ds, 1, Len(ds) - 1)) * 10 + DigitVal(ds[Len(ds)])

TokCount(tok) == ParseNat(SubSeq(tok, 1, FirstIndex(tok, ":") - 1))

TokValue(tok) == tok[Len(tok)]

Repeat(n, v) == [i \in 1..n |-> v]

RECURSIVE ExpandAll(_)
\* each token expanded into count repetitions of value, in token order
ExpandAll(toks) ==
    IF Len(toks) = 0 THEN <<>>
    ELSE Repeat(TokCount(toks[1]), TokValue(toks[1])) \o ExpandAll(Tail(toks))

WellFormed(toks) == \A i \in DOMAIN toks : WellFormedToken(toks[i])

IsBitString(s) == \A i \in DOMAIN s : s[i] \in Bits

----------------------------------------------------------------------------
(* The bitstream and the encoding a video stands for *)

\* the frames cap.read() has returned so far
DecodedFrames == SubSeq(video, 1, frameIdx)

\* the frames before the one that fails to decode
ReadableFrames == IF corruptAt = 0 THEN video ELSE SubSeq(video, 1, corruptAt - 1)

\* the intensity of a pixel after the grayscale reduction
Intensity(frame, r, c) ==
    IF IsColor(frame) THEN CvtColorPixel(frame.pix[r][c]) ELSE frame.pix[r][c]

\* one bit per pixel, rows first: 1 exactly when the intensity is above 128
RefFrameBits(frame) ==
    LET rows == frame.shape[1]
        cols == frame.shape[2]
    IN [k \in 1..(rows * cols) |->
          IF Intensity(frame, ((k - 1) \div cols) + 1, ((k - 1) % cols) + 1) > 128
          THEN "1" ELSE "0"]

RECURSIVE RefBitstream(_)
\* the bits of the frames one after the other
RefBitstream(frames) ==
    IF Len(frames) = 0 THEN <<>>
    ELSE RefFrameBits(frames[1]) \o RefBitstream(Tail(frames))

\* the length of the run s starts with
FirstRunLen(s) ==
    CHOOSE n \in 1..Len(s) :
        /\ \A i \in 1..n : s[i] = s[1]
        /\ n = Len(s) \/ s[n + 1] # s[1]

RECURSIVE RefTokens(_)
\* one token per maximal run of s
RefTokens(s) ==
    IF Len(s) = 0 THEN <<>>
    ELSE LET n == FirstRunLen(s) IN
         <<Token(n, s[1])>> \o RefTokens(SubSeq(s, n + 1, Len(s)))

RefEncode(s) == SpaceJoin(RefTokens(s))

\* a video of single-pixel, single-channel frames with the given intensities
OnePixelFrames(levels) == [i \in DOMAIN levels |-> [shape |-> <<1, 1>>, pix |-> <<<<levels[i]>>>>]]

----------------------------------------------------------------------------
(* Claims *)

\* C1: round trip. When rle_encode returns for an input over {'0','1'} (the
\* empty one included), its output is well formed and expanding each token
\* count:value into count repetitions of value, in token order, gives the input.
C1_RoundTrip ==
    (epc = "return" /\ IsBitString(data)) =>
        /\ WellFormed(TokensOf(ret))
        /\ ExpandAll(TokensOf(ret)) = data

\* C1 witness: a run of ten bits, whose count takes two digits, has been encoded
C1_Witness ==
    /\ epc = "return"
    /\ Len(data) = 10
    /\ ret = <<"1", "0", ":", "0">>

\* C2: run maximality. In the output of rle_encode for an input over
\* {'0','1'}, two adjacent tokens never have the same value.
C2_AdjacentTokensDiffer ==
    (epc = "return" /\ IsBitString(data)) =>
        LET toks == TokensOf(ret) IN
          /\ WellFormed(toks)
          /\ \A i \in 1..(Len(toks) - 1) : TokValue(toks[i]) # TokValue(toks[i + 1])

\* C2 witness: an output of three tokens
C2_Witness ==
    /\ epc = "return"
    /\ IsBitString(data)
    /\ Len(TokensOf(ret)) = 3

\* C3: count positivity. Every token rle_encode has emitted, at any point and
\* in its output, the last run's token included, has a count of at least 1.
C3_CountsPositive ==
    IsBitString(data) =>
        /\ epc \in {"loop", "return"} =>
             /\ WellFormed(encoded)
             /\ \A i \in DOMAIN encoded : TokCount(encoded[i]) >= 1
        /\ epc = "return" =>
             LET toks == TokensOf(ret) IN
               /\ WellFormed(toks)
               /\ \A i \in DOMAIN toks : TokCount(toks[i]) >= 1

\* C3 witness: the output for a single bit, whose only token is the last run
C3_Witness ==
    /\ epc = "return"
    /\ data = <<"1">>
    /\ ret = <<"1", ":", "1">>

\* C4: a character other than '0' and '1' in the input makes rle_encode
\* abort: it never returns an output for such an input.
C4_NonBinaryAborts ==
    epc = "return" => IsBitString(data)

\* C5: when a frame fails to decode mid-stream, no output file is written;
\* the header is written only after a genuine end of stream.
C5_DecodeFailureWritesNothing ==
    outfile.written => corruptAt = 0

\* C6: when the video cannot be opened, main prints the error and exits with
\* status 1 without reading a frame, and the output file is never written.
C6_OpenFailureIsFatal ==
    ~canOpen =>
        /\ pc \in {"open", "exit"}
        /\ frameIdx = 0
        /\ bit_chars = <<>>
        /\ ~outfile.written
        /\ pc = "exit" => (exitcode = 1 /\ stdout = <<OpenErrorMessage>>)
        /\ pc = "open" => (exitcode = -1 /\ stdout = <<>>)

\* C6 witness: main has exited on a video that cannot be opened
C6_Witness ==
    /\ ~canOpen
    /\ pc = "exit"
    /\ exitcode = 1

\* C7: concatenation across frames. The header main writes holds the
\* run-length encoding of the decoded frames' bits taken as one sequence, in
\* decode order; frames with bits 1, 1, 0 give "2:1 1:0".
C7_FramesConcatenated ==
    outfile.written =>
        /\ outfile.contents = HeaderContents(RefEncode(RefBitstream(DecodedFrames)))
        /\ (video = OnePixelFrames(<<129, 129, 128>>) /\ corruptAt = 0) =>
              outfile.contents =
                  <<HeaderPrefix, "2", ":", "1", " ", "1", ":", "0", HeaderSuffix>>

\* C7 witness: the header for three single-pixel frames with bits 1, 1, 0
C7_Witness ==
    /\ video = OnePixelFrames(<<129, 129, 128>>)
    /\ frameIdx = 3
    /\ outfile.written
    /\ pc = "done"

\* C8: threshold boundary. Every pixel main has binarized gave the string "1"
\* exactly when its intensity is above 128 and "0" otherwise; intensity 128
\* gives "0" and 129 gives "1".
C8_ThresholdBoundary ==
    /\ LET bits == RefBitstream(DecodedFrames) IN
         /\ Len(bit_chars) = Len(bits)
         /\ \A k \in DOMAIN bits : bit_chars[k] = <<bits[k]>>
    /\ (video = OnePixelFrames(<<128>>) /\ frameIdx = 1) => bit_chars = <<<<"0">>>>
    /\ (video = OnePixelFrames(<<129>>) /\ frameIdx = 1) => bit_chars = <<<<"1">>>>

\* C8 witness: a pixel of intensity 128 has been binarized to "0"
C8_Witness ==
    /\ video = OnePixelFrames(<<128>>)
    /\ frameIdx = 1
    /\ bit_chars = <<<<"0">>>>

\* C9: empty input. When the video has no frame, or frames without pixels,
\* rle_encode returns the empty string with no token and without raising,
\* and main goes on to write the header around the empty string and ends
\* with status 0.
C9_EmptyInput ==
    (canOpen /\ RefBitstream(ReadableFrames) = <<>>) =>
        /\ epc # "raise"
        /\ pc \notin {"crash", "exit"}
        /\ epc = "return" => (ret = <<>> /\ encoded = <<>> /\ TokensOf(ret) = <<>>)
        /\ pc = "done" =>
             /\ outfile = [written |-> TRUE, contents |-> <<HeaderPrefix, HeaderSuffix>>]
             /\ exitcode = 0
        /\ pc = "done" \/ ENABLED Next

\* C9 witness: main is done on a video of frames without pixels
C9_Witness ==
    /\ Len(video) = 2
    /\ frameIdx = 2
    /\ data = <<>>
    /\ pc = "done"
    /\ outfile.contents = <<HeaderPrefix, HeaderSuffix>>

\* the pending run and the emitted tokens after idx - 1 chars were consumed
C10_PendingRunInvariant ==
    epc = "loop" =>
        /\ WellFormed(encoded)
        /\ ExpandAll(encoded) \o Repeat(count, prev_char) = SubSeq(data, 1, idx - 1)
        /\ count >= 1
        /\ idx - 1 >= 1
        /\ Len(encoded) > 0 => TokValue(encoded[Len(encoded)]) # prev_char

\* one iteration either extends the run or emits one token and starts a run
C10_StepShape ==
    (epc = "loop" /\ epc' = "loop") =>
        \/ /\ count' = count + 1
           /\ encoded' = encoded
           /\ prev_char' = prev_char
        \/ /\ Len(encoded') = Len(encoded) + 1
           /\ SubSeq(encoded', 1, Len(encoded)) = encoded
           /\ count' = 1

\* C10: loop invariant of rle_encode. After k >= 1 chars were consumed, the
\* tokens emitted so far followed by the pending run (count, prev_char)
\* expand to the first k chars of the input, count >= 1, and the last token
\* emitted has a value other than prev_char; each iteration either increments
\* count and emits nothing, or emits one token and resets count to 1.
C10_LoopInvariant ==
    [](C10_PendingRunInvariant) /\ [][C10_StepShape]_vars

\* C10 witness: mid-loop, two tokens emitted and a pending run of two
C10_Witness ==
    /\ epc = "loop"
    /\ Len(encoded) = 2
    /\ count = 2
    /\ idx <= Len(data)

=============================================================================
